---- MODULE Spec2Model ----
(***************************************************************************)
(* pretty-json: main reads a JSON document, derives the output path        *)
(* (pretty_name), creates the output file and renders the document with    *)
(* write_pretty / write_pretty_array / write_pretty_object.                *)
(*                                                                         *)
(* Text is a sequence of characters; a character is a one-character string *)
(* (SOH stands for the control character U+0001).  The renderer is a       *)
(* stack machine: one frame per call of write_pretty_array or              *)
(* write_pretty_object, one step per write!/writeln! or call.              *)
(***************************************************************************)
EXTENDS Integers, Sequences, FiniteSets, TLC

VARIABLES
    cli,            \* the parsed command line: source, output, flat
    file,           \* what the source file decodes to
    capacity,       \* characters the output sink still accepts before it fails
    pc,             \* main's position
    source_json,    \* main: the document read
    pretty_output,  \* main: the output path
    stack,          \* the frames of write_pretty_array / write_pretty_object
    ret,            \* the Result the last finished call handed to its caller
    out,            \* the text the sink has accepted
    failed,         \* the error of the sink's failed write, if any
    late,           \* writes attempted after a failed one
    returned        \* the frame that returned last, with its result

vars == <<cli, file, capacity, pc, source_json, pretty_output, stack, ret, out,
          failed, late, returned>>

(***************************** bounds **************************************)
MaxLen == 11
MaxDepth == 4
MaxStrLen == 2
MaxPieces == 5
FaultDepth == 2
MaxCapacity == 40

(***************************** text ****************************************)
QUOTE == "\""
BACKSLASH == "\\"
SOH == "U+0001"
NL == "\n"

Spaces(n) == [i \in 1..n |-> " "]

StartsWith(s, p) == Len(p) <= Len(s) /\ SubSeq(s, 1, Len(p)) = p

EndsWith(s, p) == Len(p) <= Len(s) /\ SubSeq(s, Len(s) - Len(p) + 1, Len(s)) = p

IsPrefix(p, s) == StartsWith(s, p)

RECURSIVE Concat(_)
Concat(ss) == IF ss = <<>> THEN <<>> ELSE Head(ss) \o Concat(Tail(ss))

\* All sequences over S of length lo..hi.
SeqsOf(S, lo, hi) == UNION {[1..n -> S] : n \in lo..hi}

(* str::replace(from, to): every non-overlapping match, left to right; the *)
(* empty pattern matches at every character boundary.                      *)
RECURSIVE Replace(_, _, _)
Replace(s, from, to) ==
    IF from = <<>>
    THEN IF s = <<>> THEN to ELSE to \o <<Head(s)>> \o Replace(Tail(s), from, to)
    ELSE IF s = <<>> THEN <<>>
    ELSE IF StartsWith(s, from)
         THEN to \o Replace(SubSeq(s, Len(from) + 1, Len(s)), from, to)
         ELSE <<Head(s)>> \o Replace(Tail(s), from, to)

(* Decimal text of an integer, as Display for serde_json::Number prints an *)
(* i64/u64.                                                                *)
Digit(d) == CASE d = 0 -> "0" [] d = 1 -> "1" [] d = 2 -> "2" [] d = 3 -> "3"
              [] d = 4 -> "4" [] d = 5 -> "5" [] d = 6 -> "6" [] d = 7 -> "7"
              [] d = 8 -> "8" [] d = 9 -> "9"

RECURSIVE NatText(_)
NatText(n) == IF n < 10 THEN <<Digit(n)>> ELSE NatText(n \div 10) \o <<Digit(n % 10)>>

NumberText(n) == IF n < 0 THEN <<"-">> \o NatText(-n) ELSE NatText(n)

(* <str as Debug>::fmt, the formatter behind {value:?} : the text between  *)
(* double quotes, with the quote and the backslash escaped by a backslash, *)
(* \n written as backslash n, and any other control character written as   *)
(* \u{hex} (Rust syntax).                                                  *)
EscapeDebugChar(c) ==
    CASE c = QUOTE -> <<BACKSLASH, QUOTE>>
      [] c = BACKSLASH -> <<BACKSLASH, BACKSLASH>>
      [] c = NL -> <<BACKSLASH, "n">>
      [] c = SOH -> <<BACKSLASH, "u", "{", "1", "}">>
      [] OTHER -> <<c>>

DebugText(s) == <<QUOTE>> \o Concat([i \in 1..Len(s) |-> EscapeDebugChar(s[i])]) \o <<QUOTE>>

(***************************** serde_json::Value ***************************)
Null == [k |-> "Null"]
Bool(b) == [k |-> "Bool", b |-> b]
Number(n) == [k |-> "Number", n |-> n]
String(s) == [k |-> "String", s |-> s]
Array(items) == [k |-> "Array", items |-> items]
\* Map<String, Value>: the entries in iteration order, keys unique.
Object(fields) == [k |-> "Object", fields |-> fields]

IsArray(v) == v.k = "Array"
IsObject(v) == v.k = "Object"
IsScalar(v) == ~IsArray(v) /\ ~IsObject(v)

(***************************** write_pretty: scalars ***********************)
ScalarText(value) ==
    CASE value.k = "Null" -> <<"n", "u", "l", "l">>
      [] value.k = "Bool" -> IF value.b THEN <<"t", "r", "u", "e">>
                                        ELSE <<"f", "a", "l", "s", "e">>
      [] value.k = "Number" -> NumberText(value.n)
      [] value.k = "String" -> DebugText(value.s)

(***************************** layout decisions ****************************)
INDENT == 4

\* usize::MAX, cut to the largest integer TLC represents; it is only
\* ever compared with an index.
USIZE_MAX == 2147483647

Padding(level) == level * INDENT

FieldPadding(level) == (level + 1) * INDENT

\* "{:width$}" applied to ' ': the character, padded with spaces to at least
\* `width` columns.
Pad(width) == Spaces(IF width > 1 THEN width ELSE 1)

IsNested(itm) == IsArray(itm) \/ IsObject(itm)

Chunked(array) == Len(array) > 10 \/ (\E i \in 1..Len(array) : IsNested(array[i]))

ArrayMax(array) == (IF Len(array) > 1 THEN Len(array) ELSE 1) - 1

\* A faulty variant of IsComplex, kept for comparison: the length test off by one.
IsComplexFromThree(itm) == (IsArray(itm) /\ Len(itm.items) >= 3) \/ IsObject(itm)

IsComplex(itm) == (IsArray(itm) /\ Len(itm.items) > 3) \/ IsObject(itm)

HasObjects(array) == (\E i \in 1..Len(array) : IsComplex(array[i]))

Chunks(array) ==
    IF HasObjects(array) THEN 1
    ELSE IF (\E i \in 1..Len(array) : IsArray(array[i])) THEN 5
    ELSE 10

\* A faulty variant of ArrayNotLast, kept for comparison: the last element gets a separator too.
ArrayNotLastInclusive(idx, max) == idx <= max

\* idx < max (chunked) and idx < array.len() - 1 (inline); idx counts from 0.
ArrayNotLast(idx, max) == idx < max

\* object.len() - 1 on usize, when overflow checks are off.
WrappingLast(len) == IF len >= 1 THEN len - 1 ELSE USIZE_MAX

\* idx < last
ObjectNotLast(idx, last) == idx < last

\* A faulty variant of Flatten, kept for comparison: a member of the set that is a prefix of the path matches.
FlattenByPrefix(flat, property) == \E p \in flat : IsPrefix(p, property)

\* flat.contains(property)
Flatten(flat, property) == property \in flat

\* property.clone(), '.' pushed when it is not empty, then the field.
ExtendProperty(property, field) ==
    (IF property # <<>> THEN property \o <<".">> ELSE property) \o field

\* "\"{field}\": " : the key between quotes, written with Display.
KeyText(field) == <<QUOTE>> \o field \o <<QUOTE, ":", " ">>

\* A faulty variant of ElementProperty, kept for comparison: the array adds a segment for the element.
ElementPropertyIndexed(property) == ExtendProperty(property, <<"0">>)

\* The property an array hands to its elements: the same &mut String.
ElementProperty(property) == property

(***************************** pretty_name *********************************)
None == [some |-> FALSE]
Some(x) == [some |-> TRUE, v |-> x]

Slashes(path) == {i \in 1..Len(path) : path[i] = "/"}

LastOf(S) == CHOOSE i \in S : \A j \in S : j <= i

\* Path::file_name for a path that names a regular file.
FileName(path) ==
    IF Slashes(path) = {} THEN path
    ELSE SubSeq(path, LastOf(Slashes(path)) + 1, Len(path))

\* Path::with_file_name
WithFileName(path, filename) ==
    IF Slashes(path) = {} THEN filename
    ELSE SubSeq(path, 1, LastOf(Slashes(path))) \o filename

Dots(name) == {i \in 1..Len(name) : name[i] = "."}

(* Path::extension().unwrap_or_default(): the text after the last dot of   *)
(* the file name; none when there is no dot or the only dot leads the name.*)
Extension(path) ==
    LET name == FileName(path) IN
    IF Dots(name) = {} \/ LastOf(Dots(name)) = 1 THEN <<>>
    ELSE SubSeq(name, LastOf(Dots(name)) + 1, Len(name))

PrettySuffix == <<"-", "p", "r", "e", "t", "t", "y">>

\* filename.replace(extension, "")
StripExtension(filename, extension) == Replace(filename, extension, <<>>)

pretty_name(c) ==
    IF c.output.some THEN c.output.v
    ELSE LET extension == Extension(c.source)
             stripped == StripExtension(FileName(c.source), extension)
             popped == IF EndsWith(stripped, <<".">>)
                       THEN SubSeq(stripped, 1, Len(stripped) - 1)
                       ELSE stripped
             named == popped \o PrettySuffix
             filename == IF extension # <<>> THEN named \o <<".">> \o extension
                         ELSE named
         IN WithFileName(c.source, filename)

(***************************** Result, frames, sink ************************)
NoRet == [r |-> "none"]
Ok == [r |-> "ok"]
Err(e) == [r |-> "err", e |-> e]

\* A faulty variant of Try, kept for comparison: the callee's error is dropped.
TryNever(r) == FALSE

\* The ? operator on a callee's result: does the caller return it at once?
Try(r) == r.r = "err"

Unlimited == -1

\* What each frame wrote itself, in order: its own texts and a mark for
\* each value it had write_pretty render.
W(text) == [t |-> "w", s |-> text]
V(idx) == [t |-> "v", i |-> idx]

ArrayFrame(array, level, property) ==
    [fn |-> "write_pretty_array", array |-> array, level |-> level,
     property |-> property, pc |-> "begin", idx |-> 0, own |-> <<>>]

ObjectFrame(object, level, property) ==
    [fn |-> "write_pretty_object", object |-> object, level |-> level,
     property |-> property, pc |-> "begin", idx |-> 0, last |-> 0,
     flatten |-> FALSE, own |-> <<>>]

NoFrame == [frame |-> [fn |-> "none"], result |-> NoRet]

Top == stack[Len(stack)]
Rest == SubSeq(stack, 1, Len(stack) - 1)

InArray == pc = "render" /\ stack # <<>> /\ Top.fn = "write_pretty_array"
InObject == pc = "render" /\ stack # <<>> /\ Top.fn = "write_pretty_object"

Logged(f, item) == [f EXCEPT !.own = Append(@, item)]

\* The sink takes the whole text, or fails after the part it has room for.
WriteOk(text) == capacity = Unlimited \/ Len(text) <= capacity

Accepted(text) == IF WriteOk(text) THEN text ELSE SubSeq(text, 1, capacity)

WriteResult(text) ==
    IF WriteOk(text) THEN Ok ELSE Err([kind |-> "io", at |-> Len(out) + capacity])

Sink(text) ==
    /\ out' = out \o Accepted(text)
    /\ capacity' = IF capacity = Unlimited THEN Unlimited
                   ELSE capacity - Len(Accepted(text))
    /\ failed' = IF WriteOk(text) THEN failed ELSE WriteResult(text)
    /\ late' = IF failed # NoRet THEN late + 1 ELSE late

NoWrite == UNCHANGED <<out, capacity, failed, late>>

Main == UNCHANGED <<cli, file, pc, source_json, pretty_output>>

\* write!(output, text)? in the top frame, which then goes on as `next`.
WriteThen(text, next) ==
    /\ Sink(text)
    /\ IF WriteOk(text)
       THEN /\ stack' = Append(Rest, Logged(next, W(text)))
            /\ ret' = NoRet
            /\ returned' = returned
       ELSE /\ stack' = Rest
            /\ ret' = WriteResult(text)
            /\ returned' = [frame |-> Top, result |-> WriteResult(text)]

\* write!(output, text) as the value of the top frame's function.
WriteReturn(text) ==
    /\ Sink(text)
    /\ stack' = Rest
    /\ ret' = WriteResult(text)
    /\ returned' = [frame |-> IF WriteOk(text) THEN Logged(Top, W(text)) ELSE Top,
                    result |-> WriteResult(text)]

\* The top frame goes on as `next` without writing.
Goto(next) ==
    /\ NoWrite
    /\ stack' = Append(Rest, next)
    /\ ret' = NoRet
    /\ returned' = returned

(* write_pretty(output, value, level, property, flat), called with         *)
(* `frames` as the stack of its callers: a scalar is written at once, an   *)
(* array or an object gets a frame.                                        *)
write_pretty(frames, value, level, property) ==
    IF IsArray(value)
    THEN /\ NoWrite
         /\ stack' = Append(frames, ArrayFrame(value.items, level, property))
         /\ ret' = NoRet
         /\ returned' = returned
    ELSE IF IsObject(value)
    THEN /\ NoWrite
         /\ stack' = Append(frames, ObjectFrame(value.fields, level, property))
         /\ ret' = NoRet
         /\ returned' = returned
    ELSE /\ Sink(ScalarText(value))
         /\ stack' = frames
         /\ ret' = WriteResult(ScalarText(value))
         /\ returned' = returned

(***************************** main ****************************************)
NotJson == [k |-> "NotJson"]

\* let source_json = read_json(&cli.source)?;
ReadJson ==
    /\ pc = "read_json"
    /\ IF file = NotJson
       THEN /\ pc' = "done"
            /\ ret' = Err([kind |-> "InvalidData", at |-> 0])
            /\ source_json' = source_json
       ELSE /\ pc' = "pretty_name"
            /\ ret' = ret
            /\ source_json' = file
    /\ NoWrite
    /\ UNCHANGED <<cli, file, pretty_output, stack, returned>>

\* let pretty_output = pretty_name(&cli);
PrettyName ==
    /\ pc = "pretty_name"
    /\ pretty_output' = pretty_name(cli)
    /\ pc' = "create"
    /\ NoWrite
    /\ UNCHANGED <<cli, file, source_json, stack, ret, returned>>

\* File::create(pretty_output)?, the BufWriter, the empty property.
Create ==
    /\ pc = "create"
    /\ pc' = "write_pretty"
    /\ NoWrite
    /\ UNCHANGED <<cli, file, source_json, pretty_output, stack, ret, returned>>

\* write_pretty(&mut output, &source_json, 0, &mut property, &flat)
Render ==
    /\ pc = "write_pretty"
    /\ write_pretty(<<>>, source_json, 0, <<>>)
    /\ pc' = "render"
    /\ UNCHANGED <<cli, file, source_json, pretty_output>>

\* main returns what write_pretty returned.
Exit ==
    /\ pc = "render" /\ stack = <<>> /\ ret # NoRet
    /\ pc' = "done"
    /\ NoWrite
    /\ UNCHANGED <<cli, file, source_json, pretty_output, stack, ret, returned>>

(***************************** write_pretty_array **************************)
\* The frame after one element and its separator: the next element of the
\* row, or the row's end.
AfterElement(f) ==
    LET idx == f.idx + 1 IN
    [f EXCEPT !.idx = idx,
              !.pc = IF Chunked(f.array)
                        /\ (idx % Chunks(f.array) = 0 \/ idx = Len(f.array))
                     THEN "eol" ELSE "elem"]

\* writeln!(output, "[")? when chunked, else write!(output, "[")?
ArrayBegin ==
    /\ InArray /\ Top.pc = "begin"
    /\ IF Chunked(Top.array)
       THEN WriteThen(<<"[", NL>>, [Top EXCEPT !.pc = "row"])
       ELSE WriteThen(<<"[">>, [Top EXCEPT !.pc = "elem"])
    /\ Main

\* for values in &array.iter().chunks(chunks): the row's padding
ArrayRow ==
    /\ InArray /\ Top.pc = "row" /\ Top.idx < Len(Top.array)
    /\ WriteThen(Pad(FieldPadding(Top.level)), [Top EXCEPT !.pc = "elem"])
    /\ Main

\* write_pretty(output, value, level + 1, property, flat)
ArrayElem ==
    /\ InArray /\ Top.pc = "elem" /\ Top.idx < Len(Top.array)
    /\ write_pretty(Append(Rest, Logged([Top EXCEPT !.pc = "sep"], V(Top.idx))),
                    Top.array[Top.idx + 1], Top.level + 1,
                    ElementProperty(Top.property))
    /\ Main

\* if idx < max { write!(output, ", ")? }  idx += 1
ArraySep ==
    /\ InArray /\ Top.pc = "sep" /\ ret # NoRet /\ ~Try(ret)
    /\ IF ArrayNotLast(Top.idx, IF Chunked(Top.array) THEN ArrayMax(Top.array)
                                ELSE Len(Top.array) - 1)
       THEN WriteThen(<<",", " ">>, AfterElement(Top))
       ELSE Goto(AfterElement(Top))
    /\ Main

\* writeln!(output)? after a row
ArrayEol ==
    /\ InArray /\ Top.pc = "eol"
    /\ WriteThen(<<NL>>, [Top EXCEPT !.pc = "row"])
    /\ Main

\* write!(output, "{:padding$}]", ' ') when chunked, else write!(output, "]")
ArrayClose ==
    /\ InArray
    /\ Top.idx = Len(Top.array)
    /\ IF Chunked(Top.array)
       THEN Top.pc = "row" /\ WriteReturn(Pad(Padding(Top.level)) \o <<"]">>)
       ELSE Top.pc = "elem" /\ WriteReturn(<<"]">>)
    /\ Main

(***************************** write_pretty_object *************************)
\* let last = object.len() - 1 with overflow checks on: the subtraction
\* panics for an object without entries.
ObjectPanic ==
    /\ InObject /\ Top.pc = "begin"
    /\ Len(Top.object) < 1
    /\ pc' = "panicked"
    /\ NoWrite
    /\ UNCHANGED <<cli, file, source_json, pretty_output, stack, ret, returned>>

\* last, flatten, then write!(output, "{{ ")? or writeln!(output, "{{")?
ObjectBegin ==
    /\ InObject /\ Top.pc = "begin"
    /\ LET f == [Top EXCEPT !.last = WrappingLast(Len(Top.object)),
                            !.flatten = Flatten(cli.flat, Top.property),
                            !.pc = "field"]
       IN IF f.flatten THEN WriteThen(<<"{", " ">>, f)
                       ELSE WriteThen(<<"{", NL>>, f)
    /\ Main

\* the entry's key, after the field padding unless flattened
ObjectField ==
    /\ InObject /\ Top.pc = "field" /\ Top.idx < Len(Top.object)
    /\ LET field == Top.object[Top.idx + 1][1]
           next == [Top EXCEPT !.pc = "value"]
       IN IF Top.flatten
          THEN WriteThen(KeyText(field), next)
          ELSE WriteThen(Pad(FieldPadding(Top.level)) \o KeyText(field), next)
    /\ Main

\* the cloned, extended property; write_pretty(output, value, level + 1, ..)
ObjectValue ==
    /\ InObject /\ Top.pc = "value"
    /\ LET field == Top.object[Top.idx + 1][1]
           value == Top.object[Top.idx + 1][2]
       IN write_pretty(Append(Rest, Logged([Top EXCEPT !.pc = "sep"], V(Top.idx))),
                       value, Top.level + 1, ExtendProperty(Top.property, field))
    /\ Main

\* if idx < last { write!(output, ", ")? }
ObjectSep ==
    /\ InObject /\ Top.pc = "sep" /\ ret # NoRet /\ ~Try(ret)
    /\ LET next == IF Top.flatten
                   THEN [Top EXCEPT !.pc = "field", !.idx = @ + 1]
                   ELSE [Top EXCEPT !.pc = "eol"]
       IN IF ObjectNotLast(Top.idx, Top.last)
          THEN WriteThen(<<",", " ">>, next)
          ELSE Goto(next)
    /\ Main

\* if !flatten { writeln!(output)? }
ObjectEol ==
    /\ InObject /\ Top.pc = "eol"
    /\ WriteThen(<<NL>>, [Top EXCEPT !.pc = "field", !.idx = @ + 1])
    /\ Main

\* write!(output, " }}") or write!(output, "{:padding$}}}", ' ')
ObjectClose ==
    /\ InObject /\ Top.pc = "field" /\ Top.idx = Len(Top.object)
    /\ IF Top.flatten
       THEN WriteReturn(<<" ", "}">>)
       ELSE WriteReturn(Pad(Padding(Top.level)) \o <<"}">>)
    /\ Main

\* write_pretty(..)? in either loop: the callee's error is returned at once.
Propagate ==
    /\ pc = "render" /\ stack # <<>> /\ Top.pc = "sep"
    /\ ret # NoRet /\ Try(ret)
    /\ stack' = Rest
    /\ ret' = ret
    /\ returned' = [frame |-> Top, result |-> ret]
    /\ NoWrite
    /\ Main

(***************************** the render as a function ********************)
(* What write_pretty writes to a sink that never fails, with the           *)
(* subtraction of write_pretty_object wrapping: the same code, read as a   *)
(* function from the value to the text.                                    *)
RECURSIVE RenderText(_, _, _, _)
RenderText(value, level, property, flat) ==
    IF IsArray(value)
    THEN LET array == value.items
             n == Len(array)
             chunks == Chunks(array)
             max == IF Chunked(array) THEN ArrayMax(array) ELSE n - 1
             elem(idx) ==
                 (IF Chunked(array) /\ idx % chunks = 0
                  THEN Pad(FieldPadding(level)) ELSE <<>>)
                 \o RenderText(array[idx + 1], level + 1,
                               ElementProperty(property), flat)
                 \o (IF ArrayNotLast(idx, max) THEN <<",", " ">> ELSE <<>>)
                 \o (IF Chunked(array) /\ ((idx + 1) % chunks = 0 \/ idx + 1 = n)
                     THEN <<NL>> ELSE <<>>)
         IN (IF Chunked(array) THEN <<"[", NL>> ELSE <<"[">>)
            \o Concat([i \in 1..n |-> elem(i - 1)])
            \o (IF Chunked(array) THEN Pad(Padding(level)) \o <<"]">> ELSE <<"]">>)
    ELSE IF IsObject(value)
    THEN LET object == value.fields
             last == WrappingLast(Len(object))
             flatten == Flatten(flat, property)
             entry(idx) ==
                 (IF flatten THEN <<>> ELSE Pad(FieldPadding(level)))
                 \o KeyText(object[idx + 1][1])
                 \o RenderText(object[idx + 1][2], level + 1,
                               ExtendProperty(property, object[idx + 1][1]), flat)
                 \o (IF ObjectNotLast(idx, last) THEN <<",", " ">> ELSE <<>>)
                 \o (IF flatten THEN <<>> ELSE <<NL>>)
         IN (IF flatten THEN <<"{", " ">> ELSE <<"{", NL>>)
            \o Concat([i \in 1..Len(object) |-> entry(i - 1)])
            \o (IF flatten THEN <<" ", "}">> ELSE Pad(Padding(level)) \o <<"}">>)
    ELSE ScalarText(value)

(***************************** reading JSON text (RFC 8259) ****************)
(* The decoder the output is read back with: whitespace, the three         *)
(* literals, integers, strings with the JSON escapes, arrays, objects.  A  *)
(* result is [ok, v, p]: whether the text parses, the value, the position  *)
(* after it.                                                               *)
Fail == [ok |-> FALSE, v |-> Null, p |-> 0]
Parsed(v, p) == [ok |-> TRUE, v |-> v, p |-> p]

Whitespace == {" ", NL, "\t", "\r"}
DigitChars == {Digit(d) : d \in 0..9}
DigitValue(c) == CHOOSE d \in 0..9 : Digit(d) = c
HexChars == DigitChars \cup {"a", "b", "c", "d", "e", "f", "A", "B", "C", "D", "E", "F"}
ControlChars == {SOH, NL, "\t", "\r"}

At(t, p) == IF p <= Len(t) THEN t[p] ELSE "EOF"

RECURSIVE SkipWs(_, _)
SkipWs(t, p) == IF At(t, p) \in Whitespace THEN SkipWs(t, p + 1) ELSE p

Literal(t, p, word, v) ==
    IF StartsWith(SubSeq(t, p, Len(t)), word) THEN Parsed(v, p + Len(word)) ELSE Fail

RECURSIVE ParseDigits(_, _, _)
ParseDigits(t, p, acc) ==
    IF At(t, p) \in DigitChars
    THEN ParseDigits(t, p + 1, acc * 10 + DigitValue(t[p]))
    ELSE Parsed(acc, p)

ParseNat(t, p) ==
    IF At(t, p) \notin DigitChars THEN Fail
    ELSE IF t[p] = "0" /\ At(t, p + 1) \in DigitChars THEN Fail
    ELSE ParseDigits(t, p, 0)

ParseNumber(t, p) ==
    LET neg == At(t, p) = "-"
        r == ParseNat(t, IF neg THEN p + 1 ELSE p)
    IN IF ~r.ok \/ At(t, r.p) \in {".", "e", "E"} THEN Fail
       ELSE Parsed(Number(IF neg THEN -r.v ELSE r.v), r.p)

\* The character an escape sequence stands for; "" when it is no JSON escape.
Unescape(t, p) ==
    LET e == At(t, p) IN
    CASE e = QUOTE -> Parsed(QUOTE, p + 1)
      [] e = BACKSLASH -> Parsed(BACKSLASH, p + 1)
      [] e = "/" -> Parsed("/", p + 1)
      [] e = "n" -> Parsed(NL, p + 1)
      [] e = "t" -> Parsed("\t", p + 1)
      [] e = "r" -> Parsed("\r", p + 1)
      [] e = "b" -> Parsed("U+0008", p + 1)
      [] e = "f" -> Parsed("U+000C", p + 1)
      [] e = "u" -> IF \A i \in 1..4 : At(t, p + i) \in HexChars
                    THEN Parsed(IF SubSeq(t, p + 1, p + 4) = <<"0", "0", "0", "1">>
                                THEN SOH ELSE "U+....", p + 5)
                    ELSE Fail
      [] OTHER -> Fail

\* p is the position after the opening quote.
RECURSIVE ParseChars(_, _, _)
ParseChars(t, p, acc) ==
    LET c == At(t, p) IN
    IF c = "EOF" \/ c \in ControlChars THEN Fail
    ELSE IF c = QUOTE THEN Parsed(acc, p + 1)
    ELSE IF c = BACKSLASH
         THEN LET u == Unescape(t, p + 1)
              IN IF u.ok THEN ParseChars(t, u.p, Append(acc, u.v)) ELSE Fail
    ELSE ParseChars(t, p + 1, Append(acc, c))

\* Map::insert: a repeated key keeps its place and takes the later value.
Insert(fields, key, v) ==
    IF \E i \in 1..Len(fields) : fields[i][1] = key
    THEN [i \in 1..Len(fields) |-> IF fields[i][1] = key THEN <<key, v>> ELSE fields[i]]
    ELSE Append(fields, <<key, v>>)

RECURSIVE ParseValue(_, _), ParseElements(_, _, _), ParseEntries(_, _, _)
ParseValue(t, p0) ==
    LET p == SkipWs(t, p0)
        c == At(t, p)
    IN CASE c = "n" -> Literal(t, p, <<"n", "u", "l", "l">>, Null)
         [] c = "t" -> Literal(t, p, <<"t", "r", "u", "e">>, Bool(TRUE))
         [] c = "f" -> Literal(t, p, <<"f", "a", "l", "s", "e">>, Bool(FALSE))
         [] c = QUOTE -> LET r == ParseChars(t, p + 1, <<>>)
                         IN IF r.ok THEN Parsed(String(r.v), r.p) ELSE Fail
         [] c = "[" -> IF At(t, SkipWs(t, p + 1)) = "]"
                       THEN Parsed(Array(<<>>), SkipWs(t, p + 1) + 1)
                       ELSE ParseElements(t, p + 1, <<>>)
         [] c = "{" -> IF At(t, SkipWs(t, p + 1)) = "}"
                       THEN Parsed(Object(<<>>), SkipWs(t, p + 1) + 1)
                       ELSE ParseEntries(t, p + 1, <<>>)
         [] c = "-" \/ c \in DigitChars -> ParseNumber(t, p)
         [] OTHER -> Fail

ParseElements(t, p, acc) ==
    LET r == ParseValue(t, p)
        q == SkipWs(t, r.p)
    IN IF ~r.ok THEN Fail
       ELSE IF At(t, q) = "," THEN ParseElements(t, q + 1, Append(acc, r.v))
       ELSE IF At(t, q) = "]" THEN Parsed(Array(Append(acc, r.v)), q + 1)
       ELSE Fail

ParseEntries(t, p0, acc) ==
    LET p == SkipWs(t, p0)
        key == IF At(t, p) = QUOTE THEN ParseChars(t, p + 1, <<>>) ELSE Fail
        colon == SkipWs(t, key.p)
        r == IF key.ok /\ At(t, colon) = ":" THEN ParseValue(t, colon + 1) ELSE Fail
        q == SkipWs(t, r.p)
    IN IF ~r.ok THEN Fail
       ELSE IF At(t, q) = "," THEN ParseEntries(t, q + 1, Insert(acc, key.v, r.v))
       ELSE IF At(t, q) = "}" THEN Parsed(Object(Insert(acc, key.v, r.v)), q + 1)
       ELSE Fail

\* serde_json::from_str: one value, then nothing but whitespace.
ParseJson(t) ==
    LET r == ParseValue(t, 1)
    IN IF r.ok /\ SkipWs(t, r.p) > Len(t) THEN r ELSE Fail

\* Value's ==: arrays element by element, objects key by key in any order.
RECURSIVE DeepEqual(_, _)
DeepEqual(a, b) ==
    IF a.k # b.k THEN FALSE
    ELSE IF IsArray(a)
    THEN /\ Len(a.items) = Len(b.items)
         /\ \A i \in 1..Len(a.items) : DeepEqual(a.items[i], b.items[i])
    ELSE IF IsObject(a)
    THEN /\ Len(a.fields) = Len(b.fields)
         /\ \A i \in 1..Len(a.fields) : \E j \in 1..Len(b.fields) :
                /\ a.fields[i][1] = b.fields[j][1]
                /\ DeepEqual(a.fields[i][2], b.fields[j][2])
    ELSE a = b

(***************************** inputs **************************************)
Alphabet == {"a", QUOTE, BACKSLASH, SOH}

Strings == SeqsOf(Alphabet, 0, MaxStrLen)

Keys == {<<>>, <<"a">>, <<"b">>}

ChainKeys == {<<>>, <<"a">>}

One == Number(1)

Leaves == {One, Array(<<>>), Object(<<>>)}

Wrap(K, P) == {Array(<<x>>) : x \in P}
              \cup {Object(<< <<key, x>> >>) : key \in K, x \in P}

\* Nestings, one value per container, up to d containers deep.
RECURSIVE Chains(_)
Chains(d) == IF d = 0 THEN Leaves ELSE Leaves \cup Wrap(ChainKeys, Chains(d - 1))

AOne == Object(<< <<<<"a">>, One>> >>)

\* Arrays of two values of P, and objects of two entries with keys of K.
PairsOver(K, P) ==
    {Array(<<x, y>>) : x \in P, y \in P}
    \cup {Object(<< <<k1, x>>, <<k2, y>> >>) :
              <<k1, k2, x, y>> \in {q \in K \X K \X P \X P : q[1] # q[2]}}

Pairs == PairsOver(Keys, {One, Array(<<One>>), Object(<<>>), AOne})

Ones(n) == [i \in 1..n |-> One]

Specials == {Array(Ones(1)), Array(Ones(3)), Array(Ones(4)), AOne}

\* Arrays of up to MaxLen numbers, at most one of them replaced by an array
\* or an object.
LongArrays ==
    {Array(Ones(n)) : n \in 0..MaxLen}
    \cup {Array([Ones(n) EXCEPT ![p] = x]) :
             <<n, p, x>> \in {q \in (1..MaxLen) \X (1..MaxLen) \X Specials :
                                 q[2] <= q[1]}}

Scalars == {Null, Bool(TRUE), Bool(FALSE), Number(0), Number(-7), Number(25)}
           \cup {String(str) : str \in Strings}

KeyDocs == {Object(<< <<key, One>> >>) : key \in Strings}

Docs == Scalars \cup KeyDocs \cup Chains(MaxDepth) \cup Pairs
        \cup Wrap(Keys, Pairs) \cup LongArrays

FaultDocs == Chains(FaultDepth) \cup PairsOver({<<"a">>, <<"b">>}, {One, AOne})

FlatArgs == { {}, {<<>>}, {<<"a">>}, {<<"a">>, <<"a", ".", "a">>},
              {<<"a", ".", "b">>} }

FaultFlatArgs == { {}, {<<>>, <<"a">>} }

NamePieces == {<<"a">>, <<".">>, <<"j", "s", "o", "n">>, PrettySuffix}

\* File names of regular files: "." and ".." name directories.
Names == {Concat(ps) : ps \in SeqsOf(NamePieces, 1, MaxPieces)}
         \ {<<".">>, <<".", ".">>}

Dirs == {<<>>, <<"d", "/">>}

Sources == {d \o name : d \in Dirs, name \in Names}

DataJson == <<"a", ".", "j", "s", "o", "n">>

Init ==
    /\ \/ /\ cli \in [source : {DataJson}, output : {None}, flat : FlatArgs]
          /\ file \in Docs
          /\ capacity = Unlimited
       \/ /\ cli \in [source : {DataJson}, output : {None}, flat : FaultFlatArgs]
          /\ file \in FaultDocs
          /\ capacity \in 0..MaxCapacity
       \/ /\ cli \in [source : Sources, output : {None}, flat : {{}}]
          /\ file = One
          /\ capacity = Unlimited
       \/ /\ cli \in [source : {DataJson}, output : {Some(DataJson), Some(<<"o">>)},
                      flat : {{}}]
          /\ file \in {One, NotJson}
          /\ capacity = Unlimited
    /\ pc = "read_json"
    /\ source_json = Null
    /\ pretty_output = <<>>
    /\ stack = <<>>
    /\ ret = NoRet
    /\ out = <<>>
    /\ failed = NoRet
    /\ late = 0
    /\ returned = NoFrame

Next ==
    \/ ReadJson \/ PrettyName \/ Create \/ Render \/ Exit
    \/ ArrayBegin \/ ArrayRow \/ ArrayElem \/ ArraySep \/ ArrayEol \/ ArrayClose
    \/ ObjectPanic \/ ObjectBegin \/ ObjectField \/ ObjectValue \/ ObjectSep
    \/ ObjectEol \/ ObjectClose
    \/ Propagate

Spec == Init /\ [][Next]_vars

(***************************** properties **********************************)
Finished == pc = "done" /\ ret = Ok

Named == pc \notin {"read_json", "pretty_name"} /\ ~cli.output.some

ReturnedOk(fn) == returned.frame.fn = fn /\ returned.result = Ok

IsV(item) == item.t = "v"
IsW(item) == item.t = "w"
HasNL(item) == IsW(item) /\ \E j \in 1..Len(item.s) : item.s[j] = NL
Comma == W(<<",", " ">>)
Count(own, item) == Cardinality({j \in 1..Len(own) : own[j] = item})
UpTo(n) == [i \in 1..n |-> i - 1]

\* The element indices a frame rendered, grouped by the lines it wrote them on.
RECURSIVE RowsFrom(_, _, _, _)
RowsFrom(own, j, rows, cur) ==
    IF j > Len(own) THEN (IF cur = <<>> THEN rows ELSE Append(rows, cur))
    ELSE IF IsV(own[j]) THEN RowsFrom(own, j + 1, rows, Append(cur, own[j].i))
    ELSE IF HasNL(own[j])
         THEN RowsFrom(own, j + 1, IF cur = <<>> THEN rows ELSE Append(rows, cur), <<>>)
    ELSE RowsFrom(own, j + 1, rows, cur)

RowsOf(own) == RowsFrom(own, 1, <<>>, <<>>)

(* C1: the text written by a render that succeeded parses as JSON to a     *)
(* value deep-equal to the document.                                       *)
C1_RoundTrip ==
    Finished => /\ ParseJson(out).ok
                /\ DeepEqual(ParseJson(out).v, source_json)

(* C2: an object without keys and an array without elements render without *)
(* error: object.len() - 1 never goes below zero, the object's text is     *)
(* "{", newline, level*4 spaces, "}" (or "{  }" when flattened) and the    *)
(* array's text is "[]".                                                   *)
C2_EmptyContainers ==
    /\ pc # "panicked"
    /\ \A i \in 1..Len(stack) :
           (stack[i].fn = "write_pretty_object" /\ stack[i].pc # "begin") =>
               stack[i].last = Len(stack[i].object) - 1 /\ stack[i].last >= 0
    /\ (ReturnedOk("write_pretty_object") /\ returned.frame.object = <<>>) =>
           returned.frame.own =
               IF returned.frame.property \in cli.flat
               THEN <<W(<<"{", " ">>), W(<<" ", "}">>)>>
               ELSE <<W(<<"{", NL>>), W(Spaces(returned.frame.level * 4) \o <<"}">>)>>
    /\ (ReturnedOk("write_pretty_array") /\ returned.frame.array = <<>>) =>
           returned.frame.own = <<W(<<"[">>), W(<<"]">>)>>

(* C3: without an output argument the output path is the source's          *)
(* directory with the file name stem + "-pretty" + ("." + ext when ext is  *)
(* not empty), ext being the text after the final dot and stem the name    *)
(* without that final extension and its dot.                               *)
FinalDot(name) == IF Dots(name) = {} \/ LastOf(Dots(name)) = 1 THEN 0
                  ELSE LastOf(Dots(name))

C3_DefaultName ==
    Named =>
        LET name == FileName(cli.source)
            stem == IF FinalDot(name) = 0 THEN name
                    ELSE SubSeq(name, 1, FinalDot(name) - 1)
            ext == IF FinalDot(name) = 0 THEN <<>>
                   ELSE SubSeq(name, FinalDot(name) + 1, Len(name))
        IN pretty_output =
               SubSeq(cli.source, 1, Len(cli.source) - Len(name))
               \o stem \o <<"-", "p", "r", "e", "t", "t", "y">>
               \o (IF ext # <<>> THEN <<".">> \o ext ELSE <<>>)

(* C4: an object is written flattened exactly when its property path is a  *)
(* member of the flatten set: "{ ", then per key in order the quoted key,  *)
(* ": ", the value and ", " after every entry but the last, then " }",     *)
(* with no newline of its own; any other object opens with "{" newline and *)
(* ends every entry with a newline.                                        *)
FlatItems(object) ==
    <<W(<<"{", " ">>)>>
    \o Concat([i \in 1..Len(object) |->
                  <<W(<<QUOTE>> \o object[i][1] \o <<QUOTE, ":", " ">>), V(i - 1)>>
                  \o (IF i < Len(object) THEN <<Comma>> ELSE <<>>)])
    \o <<W(<<" ", "}">>)>>

C4_FlattenLayout ==
    ReturnedOk("write_pretty_object") =>
        LET f == returned.frame IN
        IF f.property \in cli.flat
        THEN f.own = FlatItems(f.object)
        ELSE /\ f.own[1] = W(<<"{", NL>>)
             /\ Count(f.own, W(<<NL>>)) = Len(f.object)
             /\ RowsOf(f.own) = [i \in 1..Len(f.object) |-> <<i - 1>>]

\* A flattened object with two entries returns into an object that is not.
C4_Witness ==
    /\ ReturnedOk("write_pretty_object")
    /\ returned.frame.property \in cli.flat
    /\ Len(returned.frame.object) = 2
    /\ stack # <<>> /\ Top.fn = "write_pretty_object" /\ ~Top.flatten

(* C5: every frame of write_pretty_object holds as its property the keys   *)
(* on the route from the root to it, joined by dots; arrays add nothing.   *)
Route(i) ==
    LET below == {j \in 1..(i - 1) : stack[j].fn = "write_pretty_object"}
        nth[k \in 0..Cardinality(below)] ==
            IF k = 0 THEN 0
            ELSE CHOOSE j \in below : j > nth[k - 1]
                                      /\ \A h \in below : h > nth[k - 1] => j <= h
    IN [k \in 1..Cardinality(below) |-> stack[nth[k]].object[stack[nth[k]].idx + 1][1]]

RECURSIVE DotJoin(_)
DotJoin(keys) ==
    IF keys = <<>> THEN <<>>
    ELSE IF Len(keys) = 1 THEN keys[1]
    ELSE keys[1] \o <<".">> \o DotJoin(Tail(keys))

RECURSIVE DropLeadingEmpty(_)
DropLeadingEmpty(keys) ==
    IF keys # <<>> /\ Head(keys) = <<>> THEN DropLeadingEmpty(Tail(keys)) ELSE keys

C5_PathIsDotJoin ==
    \A i \in 1..Len(stack) :
        stack[i].fn = "write_pretty_object" => stack[i].property = DotJoin(Route(i))

(* C5, amended: every frame of write_pretty_object holds as its property   *)
(* the keys on the route from the root to it, without the empty keys the   *)
(* route starts with, joined by dots; arrays add nothing.                  *)
C5_PathIsDotJoinAfterEmpty ==
    \A i \in 1..Len(stack) :
        stack[i].fn = "write_pretty_object" =>
            stack[i].property = DotJoin(DropLeadingEmpty(Route(i)))

\* An object inside an array inside an array that is the field of an object.
C5_Witness ==
    /\ Len(stack) >= 4
    /\ stack[1].fn = "write_pretty_object"
    /\ stack[2].fn = "write_pretty_array"
    /\ stack[3].fn = "write_pretty_array"
    /\ stack[4].fn = "write_pretty_object"
    /\ stack[4].property = <<"a">>

(* C6: an array is written on one line, with no newline of its own,        *)
(* exactly when it has at most 10 elements and none is an array or an      *)
(* object; otherwise in rows of 1 element when one is an object or an      *)
(* array of more than 3 items, else 5 when one is an array, else 10: every *)
(* row but the last holds exactly that many, the last at most that many,   *)
(* and the rows hold all elements in order.                                *)
C6_ArrayLayout ==
    ReturnedOk("write_pretty_array") =>
        LET f == returned.frame
            array == f.array
            n == Len(array)
            isArr(i) == array[i].k = "Array"
            isObj(i) == array[i].k = "Object"
            inline == n <= 10 /\ \A i \in 1..n : ~isArr(i) /\ ~isObj(i)
            chunkSize ==
                IF \E i \in 1..n : isObj(i) \/ (isArr(i) /\ Len(array[i].items) > 3)
                THEN 1
                ELSE IF \E i \in 1..n : isArr(i) THEN 5 ELSE 10
            rows == RowsOf(f.own)
        IN /\ inline <=> \A j \in 1..Len(f.own) : ~HasNL(f.own[j])
           /\ Concat(rows) = UpTo(n)
           /\ ~inline =>
                  /\ f.own[1] = W(<<"[", NL>>)
                  /\ \A r \in 1..Len(rows) :
                         IF r < Len(rows) THEN Len(rows[r]) = chunkSize
                         ELSE Len(rows[r]) \in 1..chunkSize

\* Eleven numbers: a row of ten and a row of one.
C6_Witness ==
    /\ ReturnedOk("write_pretty_array")
    /\ Len(returned.frame.array) = 11
    /\ \A i \in 1..11 : IsScalar(returned.frame.array[i])
    /\ RowsOf(returned.frame.own) = <<UpTo(10), <<10>>>>

(* C7: an array of n >= 1 elements writes exactly n-1 separators ", ": one *)
(* directly after every element but the last of the whole array, row ends  *)
(* included, none after the last and none anywhere else.                   *)
C7_Separators ==
    (ReturnedOk("write_pretty_array") /\ Len(returned.frame.array) >= 1) =>
        LET own == returned.frame.own
            n == Len(returned.frame.array)
        IN /\ Count(own, Comma) = n - 1
           /\ \A j \in 1..Len(own) :
                  /\ IsV(own[j]) => (own[j + 1] = Comma <=> own[j].i < n - 1)
                  /\ own[j] = Comma => IsV(own[j - 1])

\* A separator that ends a row of a chunked array.
C7_Witness ==
    /\ ReturnedOk("write_pretty_array")
    /\ \E j \in 2..Len(returned.frame.own) :
           /\ returned.frame.own[j - 1] = Comma
           /\ returned.frame.own[j] = W(<<NL>>)

(* C8: at every level L a row of a chunked array and a field line of an    *)
(* object that is not flattened start with exactly (L+1)*4 spaces, and the *)
(* closing bracket or brace follows exactly L*4 spaces on its line (read   *)
(* here on the arrays and objects that have a row or a field line).        *)
C8_Indentation ==
    (/\ returned.result = Ok
     /\ returned.frame.fn \in {"write_pretty_array", "write_pretty_object"}
     /\ HasNL(returned.frame.own[1])
     /\ RowsOf(returned.frame.own) # <<>>) =>
        LET f == returned.frame
            own == f.own
            closer == IF f.fn = "write_pretty_array" THEN <<"]">> ELSE <<"}">>
        IN \A j \in 1..(Len(own) - 1) :
               HasNL(own[j]) =>
                   IF j + 1 = Len(own)
                   THEN own[j + 1] = W(Spaces(f.level * 4) \o closer)
                   ELSE /\ IsW(own[j + 1])
                        /\ StartsWith(own[j + 1].s, Spaces((f.level + 1) * 4))
                        /\ Len(own[j + 1].s) > (f.level + 1) * 4 =>
                               own[j + 1].s[(f.level + 1) * 4 + 1] # " "

(* C9: once a write to the sink has failed, no write is attempted any      *)
(* more, every call returns that error, and the text the sink accepted is  *)
(* a prefix of what the render writes to a sink that does not fail.        *)
C9_WriteErrorStops ==
    /\ late = 0
    /\ failed # NoRet => ret = failed
    /\ pc \in {"render", "done", "panicked"} =>
           IsPrefix(out, RenderText(source_json, 0, <<>>, cli.flat))

\* A write failed two calls deep, after part of the text was accepted.
C9_Witness ==
    /\ pc = "render"
    /\ failed # NoRet
    /\ Len(stack) >= 2
    /\ out # <<>>

(* C10: without an output argument the output path differs from the source *)
(* path, so File::create does not truncate the file that was read.         *)
C10_OutputIsNotSource == Named => pretty_output # cli.source

====
